---- MODULE Spec2Model ----
(***************************************************************************)
(* Model of src/utilities/ocr.py: extract_text and find_text.              *)
(*                                                                         *)
(* A Python str is a sequence of one-character strings.  A Detection is    *)
(* the triple <<char, x, y>> the code builds as [key, x, y].  The result   *)
(* of cv2.matchTemplate + np.where for one glyph is given by `scene`, the  *)
(* set of positions at which the glyph correlates >= 0.98 in the filtered  *)
(* image; the template/image size relation decides whether matchTemplate   *)
(* runs, runs with its arguments swapped, or raises cv2.error.             *)
(***************************************************************************)
EXTENDS Integers, Sequences, FiniteSets, TLC

\* ---------------------------------------------------------------- bounds
MaxDet == 3
MaxWordLen == 2
MaxWords == 2

\* ---------------------------------------------------------------- inputs
Size(w, h) == [w |-> w, h |-> h]

FontAB == [c \in {"A", "B"} |-> Size(10, 14)]
FontVar == ("A" :> Size(10, 14)) @@ ("B" :> Size(6, 14)) @@ ("X" :> Size(4, 14))
FontSp == ("A" :> Size(10, 14)) @@ (" " :> Size(3, 14))
Fonts == {FontAB, FontVar, FontSp}

ImageSizes == {Size(40, 40), Size(9, 40), Size(8, 8)}
Grid == {<<5, 5>>, <<16, 5>>, <<5, 19>>, <<16, 19>>}
SwappedGrid == {<<0, 0>>}
Regions == {[left |-> 0, top |-> 0], [left |-> 100, top |-> 50]}
ExcludeSets == {{}, {"B"}, {"A", "X"}}

TargetChars == {"A", "B", "Z", " "}
ExtraStrs == {<<"A", " ", "B">>, <<"Z", "A", "B">>}
ListWords == {<<>>, <<"A", "B">>, <<"A", "Z">>, <<" ", "A">>}

RECURSIVE Strs(_)
Strs(n) == IF n = 0 THEN {<<>>}
           ELSE Strs(n - 1) \cup {Append(s, c) : s \in Strs(n - 1), c \in TargetChars}

Lists == UNION {[1..k -> ListWords] : k \in 1..MaxWords}

Texts == {[kind |-> "str", val |-> <<s>>] : s \in Strs(MaxWordLen) \cup ExtraStrs}
         \cup {[kind |-> "list", val |-> l] : l \in Lists}

NoText == [kind |-> "str", val |-> << <<>> >>]

\* ---------------------------------------------------------------- state
VARIABLES font, img, scene, rect, op, exclude_chars, targets,
          text, todo, order, char_list, result, haystack, words_found,
          wi, idx, pc, err

inputs == <<font, img, scene, rect, op, exclude_chars, targets>>
vars == <<font, img, scene, rect, op, exclude_chars, targets,
          text, todo, order, char_list, result, haystack, words_found,
          wi, idx, pc, err>>

\* ------------------------------------------------- cv2.matchTemplate
Fits(f, im, c) == f[c].w <= im.w /\ f[c].h <= im.h
Swapped(f, im, c) == ~Fits(f, im, c) /\ im.w <= f[c].w /\ im.h <= f[c].h

MatchMode(f, im, c) ==
    IF Fits(f, im, c) THEN "ok"
    ELSE IF Swapped(f, im, c) THEN "swapped"
    ELSE "error"

\* positions of the correlation surface of glyph c
Surface(f, im, c) ==
    IF MatchMode(f, im, c) = "ok"
    THEN {p \in Grid : p[1] + f[c].w <= im.w /\ p[2] + f[c].h <= im.h}
    ELSE IF MatchMode(f, im, c) = "swapped" THEN SwappedGrid
    ELSE {}

AllDetections(f, im) ==
    {<<c, p[1], p[2]>> : c \in DOMAIN f, p \in Grid \cup SwappedGrid}

Scenes(f, im) ==
    {S \in SUBSET {d \in AllDetections(f, im) : <<d[2], d[3]>> \in Surface(f, im, d[1])} :
        Cardinality(S) <= MaxDet}

\* np.where scans the correlation surface row by row
RowMajorLE(a, b) == a[3] < b[3] \/ (a[3] = b[3] /\ a[2] <= b[2])

RECURSIVE RowMajor(_)
RowMajor(S) ==
    IF S = {} THEN <<>>
    ELSE LET m == CHOOSE d \in S : \A e \in S : RowMajorLE(d, e)
         IN <<m>> \o RowMajor(S \ {m})

\* [key, x, y] for x, y in zip(x_mins, y_mins)
Locate(sc, c) == RowMajor({d \in sc : d[1] = c})

\* ------------------------------------------------- sorted(key=itemgetter(2, 1))
SortKeyLE(a, b) == a[3] < b[3] \/ (a[3] = b[3] /\ a[2] <= b[2])

InsertSorted(s, e) ==
    LET n == Cardinality({i \in 1..Len(s) : SortKeyLE(s[i], e)})
    IN SubSeq(s, 1, n) \o <<e>> \o SubSeq(s, n + 1, Len(s))

RECURSIVE Sorted(_)
Sorted(s) ==
    IF s = <<>> THEN <<>>
    ELSE InsertSorted(Sorted(SubSeq(s, 1, Len(s) - 1)), s[Len(s)])

\* "".join(letter for letter, _, _ in char_list)
Letters(cl) == [i \in 1..Len(cl) |-> cl[i][1]]

\* ------------------------------------------------- str helpers
CharsOf(s) == {s[i] : i \in 1..Len(s)}

\* variant: the character is reported but left in the string
StrReplace_Kept(s, c) == s

\* s.replace(c, "")
StrReplace(s, c) == SelectSeq(s, LAMBDA ch : ch # c)

RECURSIVE Join(_)
Join(l) == IF l = <<>> THEN <<>> ELSE l[1] \o Join(Tail(l))

Min(a, b) == IF a <= b THEN a ELSE b

\* h[index : index + n], index counted from 0
Slice(h, index, n) == SubSeq(h, index + 1, Min(index + n, Len(h)))

\* variant: the space glyph is matched like any other
Excluded_SpaceMatched(key, excl) == key \in excl

\* key == " " or key in exclude_chars
Excluded(key, excl) == key = " " \/ key \in excl

\* variant: the shape of the first letter is used instead of the last
RectOf_FirstLetter(f, r, cl, index, word) ==
    LET left == cl[index + 1][2]
        top == cl[index + 1][3]
        first == word[1]
        width == cl[index + Len(word)][2] - left + f[first].w
    IN [left |-> left + r.left, top |-> top + r.top,
        width |-> width, height |-> f[first].h]

\* Rectangle(left + rect.left, top + rect.top, width, h)
RectOf(f, r, cl, index, word) ==
    LET left == cl[index + 1][2]
        top == cl[index + 1][3]
        last == word[Len(word)]
        width == cl[index + Len(word)][2] - left + f[last].w
    IN [left |-> left + r.left, top |-> top + r.top,
        width |-> width, height |-> f[last].h]

\* variant: the scan resumes after the matched span
NextIndex_SkipAhead(index, word) == index + Len(word)

\* the loop variable after one pass of "for index, _ in enumerate(haystack)"
NextIndex(index, word) == index + 1

\* ---------------------------------------------------------------- Init
Init ==
    /\ font \in Fonts
    /\ img \in ImageSizes
    /\ scene \in Scenes(font, img)
    /\ rect \in Regions
    /\ op \in {"extract_text", "find_text"}
    /\ exclude_chars \in (IF op = "extract_text" THEN ExcludeSets ELSE {{}})
    /\ targets \in (IF op = "find_text" THEN Texts ELSE {NoText})
    /\ text = targets
    /\ todo = {}
    /\ order = <<>>
    /\ char_list = <<>>
    /\ result = <<>>
    /\ haystack = <<>>
    /\ words_found = <<>>
    /\ wi = 1
    /\ idx = 0
    /\ pc = "call"
    /\ err = "none"

\* ---------------------------------------------------------------- extract_text
ExtractBegin ==
    /\ pc = "call" /\ op = "extract_text"
    /\ todo' = DOMAIN font
    /\ char_list' = <<>>
    /\ result' = <<>>
    /\ pc' = "extract_loop"
    /\ UNCHANGED <<inputs, text, order, haystack, words_found, wi, idx, err>>

ExtractSkip ==
    /\ pc = "extract_loop"
    /\ \E key \in todo :
        /\ Excluded(key, exclude_chars)
        /\ todo' = todo \ {key}
        /\ order' = Append(order, key)
    /\ UNCHANGED <<inputs, text, char_list, result, haystack, words_found, wi, idx, pc, err>>

ExtractMatch ==
    /\ pc = "extract_loop"
    /\ \E key \in todo :
        /\ ~Excluded(key, exclude_chars)
        /\ MatchMode(font, img, key) # "error"
        /\ char_list' = char_list \o Locate(scene, key)
        /\ todo' = todo \ {key}
        /\ order' = Append(order, key)
    /\ UNCHANGED <<inputs, text, result, haystack, words_found, wi, idx, pc, err>>

ExtractMatchError ==
    /\ pc = "extract_loop"
    /\ \E key \in todo :
        /\ ~Excluded(key, exclude_chars)
        /\ MatchMode(font, img, key) = "error"
        /\ order' = Append(order, key)
    /\ pc' = "raised"
    /\ err' = "cv2.error"
    /\ UNCHANGED <<inputs, text, todo, char_list, result, haystack, words_found, wi, idx>>

ExtractReturn ==
    /\ pc = "extract_loop"
    /\ todo = {}
    /\ char_list' = Sorted(char_list)
    /\ result' = Letters(Sorted(char_list))
    /\ pc' = "done"
    /\ UNCHANGED <<inputs, text, todo, order, haystack, words_found, wi, idx, err>>

\* ---------------------------------------------------------------- find_text
FindBegin ==
    /\ pc = "call" /\ op = "find_text"
    /\ todo' = CharsOf(Join(text.val)) \ {" "}
    /\ char_list' = <<>>
    /\ pc' = "find_loop"
    /\ UNCHANGED <<inputs, text, order, result, haystack, words_found, wi, idx, err>>

FindKeyError ==
    /\ pc = "find_loop"
    /\ text.kind = "str"
    /\ \E char \in todo :
        /\ char \notin DOMAIN font
        /\ text' = [text EXCEPT !.val = <<StrReplace(text.val[1], char)>>]
        /\ todo' = todo \ {char}
        /\ order' = Append(order, char)
    /\ UNCHANGED <<inputs, char_list, result, haystack, words_found, wi, idx, pc, err>>

FindKeyErrorList ==
    /\ pc = "find_loop"
    /\ text.kind = "list"
    /\ \E char \in todo :
        /\ char \notin DOMAIN font
        /\ order' = Append(order, char)
    /\ pc' = "raised"
    /\ err' = "AttributeError"
    /\ UNCHANGED <<inputs, text, todo, char_list, result, haystack, words_found, wi, idx>>

FindMatch ==
    /\ pc = "find_loop"
    /\ \E char \in todo :
        /\ char \in DOMAIN font
        /\ MatchMode(font, img, char) # "error"
        /\ char_list' = char_list \o Locate(scene, char)
        /\ todo' = todo \ {char}
        /\ order' = Append(order, char)
    /\ UNCHANGED <<inputs, text, result, haystack, words_found, wi, idx, pc, err>>

FindMatchError ==
    /\ pc = "find_loop"
    /\ \E char \in todo :
        /\ char \in DOMAIN font
        /\ MatchMode(font, img, char) = "error"
        /\ order' = Append(order, char)
    /\ pc' = "raised"
    /\ err' = "cv2.error"
    /\ UNCHANGED <<inputs, text, todo, char_list, result, haystack, words_found, wi, idx>>

FindSort ==
    /\ pc = "find_loop"
    /\ todo = {}
    /\ char_list' = Sorted(char_list)
    /\ haystack' = Letters(Sorted(char_list))
    /\ words_found' = <<>>
    /\ text' = [kind |-> "list", val |-> text.val]
    /\ wi' = 1
    /\ idx' = 0
    /\ pc' = "scan"
    /\ UNCHANGED <<inputs, todo, order, result, err>>

Word == StrReplace(text.val[wi], " ")

ScanMatch ==
    /\ pc = "scan"
    /\ wi <= Len(text.val)
    /\ idx < Len(haystack)
    /\ Slice(haystack, idx, Len(Word)) = Word
    /\ Word # <<>>
    /\ words_found' = Append(words_found, RectOf(font, rect, char_list, idx, Word))
    /\ idx' = NextIndex(idx, Word)
    /\ UNCHANGED <<inputs, text, todo, order, char_list, result, haystack, wi, pc, err>>

ScanIndexError ==
    /\ pc = "scan"
    /\ wi <= Len(text.val)
    /\ idx < Len(haystack)
    /\ Slice(haystack, idx, Len(Word)) = Word
    /\ Word = <<>>
    /\ pc' = "raised"
    /\ err' = "IndexError"
    /\ UNCHANGED <<inputs, text, todo, order, char_list, result, haystack, words_found, wi, idx>>

ScanNoMatch ==
    /\ pc = "scan"
    /\ wi <= Len(text.val)
    /\ idx < Len(haystack)
    /\ Slice(haystack, idx, Len(Word)) # Word
    /\ idx' = idx + 1
    /\ UNCHANGED <<inputs, text, todo, order, char_list, result, haystack, words_found, wi, pc, err>>

ScanNextWord ==
    /\ pc = "scan"
    /\ wi <= Len(text.val)
    /\ idx >= Len(haystack)
    /\ wi' = wi + 1
    /\ idx' = 0
    /\ UNCHANGED <<inputs, text, todo, order, char_list, result, haystack, words_found, pc, err>>

FindReturn ==
    /\ pc = "scan"
    /\ wi > Len(text.val)
    /\ pc' = "done"
    /\ UNCHANGED <<inputs, text, todo, order, char_list, result, haystack, words_found, wi, idx, err>>

Next ==
    \/ ExtractBegin
    \/ ExtractSkip
    \/ ExtractMatch
    \/ ExtractMatchError
    \/ ExtractReturn
    \/ FindBegin
    \/ FindKeyError
    \/ FindKeyErrorList
    \/ FindMatch
    \/ FindMatchError
    \/ FindSort
    \/ ScanMatch
    \/ ScanIndexError
    \/ ScanNoMatch
    \/ ScanNextWord
    \/ FindReturn

Spec == Init /\ [][Next]_vars

\* ---------------------------------------------------------------- reference definitions
NoSpaces(s) == SelectSeq(s, LAMBDA ch : ch # " ")
InFont(s) == SelectSeq(s, LAMBDA ch : ch \in DOMAIN font)

\* word occurs in full in h at offset i (counted from 0)
Occurs(h, w, i) ==
    /\ i + Len(w) <= Len(h)
    /\ \A k \in 1..Len(w) : h[i + k] = w[k]

Offsets(h, w) == {i \in 0..(Len(h) - 1) : Occurs(h, w, i)}
OffsetSeq(h, w) == SelectSeq([n \in 1..Len(h) |-> n - 1], LAMBDA i : Occurs(h, w, i))

IsSubstr(w, h) == \E i \in 0..Len(h) : Occurs(h, w, i)

\* the rectangle of the match of w at offset i, in absolute coordinates
BoundingBox(cl, w, i) ==
    [left |-> cl[i + 1][2] + rect.left,
     top |-> cl[i + 1][3] + rect.top,
     width |-> (cl[i + Len(w)][2] - cl[i + 1][2]) + font[w[Len(w)]].w,
     height |-> font[w[Len(w)]].h]

BoxesOf(cl, w) ==
    LET offs == OffsetSeq(Letters(cl), w)
    IN [n \in 1..Len(offs) |-> BoundingBox(cl, w, offs[n])]

RECURSIVE AllBoxes(_, _)
AllBoxes(cl, ws) ==
    IF ws = <<>> THEN <<>>
    ELSE BoxesOf(cl, NoSpaces(ws[1])) \o AllBoxes(cl, Tail(ws))

RECURSIVE CountOffsets(_, _, _)
CountOffsets(h, ws, n) ==
    IF n = 0 THEN 0
    ELSE CountOffsets(h, ws, n - 1) + Cardinality(Offsets(h, NoSpaces(ws[n])))

\* detections pooled glyph by glyph in the order ks
RECURSIVE Pool(_)
Pool(ks) == IF ks = <<>> THEN <<>> ELSE Locate(scene, ks[1]) \o Pool(Tail(ks))

IsOrdered(cl) ==
    \A i \in 1..(Len(cl) - 1) :
        cl[i][3] < cl[i + 1][3] \/ (cl[i][3] = cl[i + 1][3] /\ cl[i][2] <= cl[i + 1][2])

CanonOrder == <<" ", "A", "B", "X", "Z">>
TargetChars0 == CharsOf(Join(targets.val)) \ {" "}

CanonKeys ==
    IF op = "extract_text"
    THEN SelectSeq(CanonOrder, LAMBDA c : c \in DOMAIN font /\ c # " " /\ c \notin exclude_chars)
    ELSE SelectSeq(CanonOrder, LAMBDA c : c \in DOMAIN font /\ c \in TargetChars0)

CanonString == Letters(Sorted(Pool(CanonKeys)))

FullString ==
    Letters(Sorted(Pool(SelectSeq(CanonOrder, LAMBDA c : c \in DOMAIN font /\ c # " "))))

NoTies == \A d, e \in scene : (d[2] = e[2] /\ d[3] = e[3]) => d = e
AllFit == \A c \in DOMAIN font : Fits(font, img, c)

Eligible == {d \in scene : d[1] # " " /\ d[1] \notin exclude_chars}

SceneAB == {<<"A", 5, 5>>, <<"B", 16, 5>>}

\* ---------------------------------------------------------------- claims

\* C1: when extract_text returns, the string has exactly one character per
\* Detection of every font glyph other than space and the excluded
\* characters, no other character, in order of y ascending then x
\* ascending; it is empty when there is no Detection; 'A' at (5,5) and 'B'
\* at (16,5) give "AB".
C1_ExtractText ==
    (pc = "done" /\ op = "extract_text") =>
        /\ result = Letters(char_list)
        /\ Len(char_list) = Cardinality(Eligible)
        /\ {char_list[i] : i \in 1..Len(char_list)} = Eligible
        /\ IsOrdered(char_list)
        /\ \A i \in 1..Len(result) : result[i] # " " /\ result[i] \notin exclude_chars
        /\ (scene = {} => result = <<>>)
        /\ ((font = FontAB /\ scene = SceneAB /\ exclude_chars = {}) => result = <<"A", "B">>)

C1_Witness ==
    /\ pc = "done" /\ op = "extract_text"
    /\ font = FontAB /\ scene = SceneAB /\ exclude_chars = {}
    /\ result = <<"A", "B">>

\* C2: every rectangle find_text returns for a match at haystack offset i has
\* left = x of Detection i + region.left, top = y of Detection i +
\* region.top, width = x of the Detection of the match's last character - x
\* of Detection i + width of the last character's template, and height =
\* that template's height (the target taken as searched, without spaces and
\* font-absent characters); the rectangles are exactly those of the matches.
C2_Rectangles ==
    (pc = "done" /\ op = "find_text") =>
        words_found = AllBoxes(char_list, text.val)

C2_Witness ==
    /\ pc = "done" /\ op = "find_text"
    /\ font = FontAB /\ scene = SceneAB
    /\ targets = [kind |-> "str", val |-> << <<"A", "B">> >>]
    /\ rect.left = 100
    /\ words_found = << [left |-> 105, top |-> 55, width |-> 21, height |-> 14] >>

\* C3: if no target (spaces removed) is a contiguous substring of the full
\* reading-order glyph string of the image, find_text returns an empty list.
C3_AbsentTargetNotFound ==
    ( /\ pc = "done" /\ op = "find_text"
      /\ NoTies /\ AllFit
      /\ TargetChars0 \subseteq DOMAIN font
      /\ \A j \in 1..Len(targets.val) : ~IsSubstr(NoSpaces(targets.val[j]), FullString) )
    => words_found = <<>>

\* C4: a list of targets with a character absent from the font never makes
\* find_text raise (every template fitting the image): the character is
\* stripped and the search continues.
C4_ListTargetsStripped ==
    (op = "find_text" /\ targets.kind = "list" /\ AllFit
        /\ ~(TargetChars0 \subseteq DOMAIN font)) =>
        pc # "raised"

\* C5: a glyph whose template is larger than the image is skipped: the call
\* does not raise and the glyph contributes no detection.
C5_OversizeTemplateSkipped ==
    /\ ~(pc = "raised" /\ err = "cv2.error")
    /\ pc = "done" => \A i \in 1..Len(char_list) : Fits(font, img, char_list[i][1])

\* C6: for an image every glyph template fits in, the extract_text string and
\* the find_text haystack do not depend on the
\* order in which the per-glyph detections are pooled: every pooling order
\* gives what the fixed order CanonOrder gives.
C6_PoolingOrderIrrelevant ==
    (pc = "done" /\ AllFit) =>
        /\ op = "extract_text" => result = CanonString
        /\ op = "find_text" => haystack = CanonString

\* C7: the scan tests every offset in turn: the number of rectangles appended
\* so far is the number of offsets at which the earlier targets occur in
\* full plus the number of offsets already passed at which the current
\* target occurs in full, overlapping occurrences included.
C7_OneRectanglePerOffset ==
    (pc \in {"scan", "done"}) =>
        Len(words_found) =
            CountOffsets(haystack, text.val, wi - 1)
            + (IF wi <= Len(text.val)
               THEN Cardinality({i \in Offsets(haystack, NoSpaces(text.val[wi])) : i < idx})
               ELSE 0)

C7_Witness ==
    /\ pc = "done"
    /\ haystack = <<"A", "A", "A">>
    /\ targets = [kind |-> "str", val |-> << <<"A", "A">> >>]
    /\ Len(words_found) = 2

\* C8: for a single target string find_text ends as it does for that string
\* with its spaces and font-absent characters removed: the same rectangles,
\* and no exception from the removal.
C8_StrippedTargetEquivalent ==
    (op = "find_text" /\ targets.kind = "str" /\ pc \in {"done", "raised"}) =>
        LET s == NoSpaces(InFont(targets.val[1]))
            keys == SelectSeq(order, LAMBDA c : c \in CharsOf(s))
            raises == \E c \in CharsOf(s) : MatchMode(font, img, c) = "error"
        IN /\ pc = "raised" <=> raises
           /\ pc = "raised" => err = "cv2.error"
           /\ pc = "done" => words_found = BoxesOf(Sorted(Pool(keys)), s)

C8_Witness ==
    /\ pc = "done" /\ op = "find_text"
    /\ targets = [kind |-> "str", val |-> << <<"Z", "A", "B">> >>]
    /\ font = FontAB
    /\ Len(words_found) = 1

\* C9: find_text has no fatal error path for any target input: with every
\* template fitting the image and every target character in the font, it
\* never raises, also when a target is empty once its spaces are removed.
C9_EmptyTargetNoRaise ==
    (op = "find_text" /\ AllFit /\ TargetChars0 \subseteq DOMAIN font) =>
        pc # "raised"

\* C10: every match spans detections of one row: all Detections of the
\* matched span have the y of the first, and the rectangle is at least as
\* wide as the template of the target's last character.
C10_SingleRow ==
    (pc = "done" /\ op = "find_text" /\ NoTies /\ AllFit) =>
        \A j \in 1..Len(text.val) :
            LET w == NoSpaces(text.val[j])
            IN \A i \in Offsets(haystack, w) :
                /\ \A k \in 1..Len(w) : char_list[i + k][3] = char_list[i + 1][3]
                /\ BoundingBox(char_list, w, i).width >= font[w[Len(w)]].w

====
